---- MODULE Spec2Model ----
(***************************************************************************)
(* Model of the football-stats scraping pipeline: the three scrapers, the  *)
(* multi-source merge (merge_data_sources), the derived-metrics calculator *)
(* (calculate_derived_metrics) of scraper.py and the POST /scrape handler  *)
(* (scrape_all, trigger_scrape) of app.py.                                 *)
(*                                                                         *)
(* A DataFrame is a record [none, cols, rows]: cols is the sequence of     *)
(* column names, rows a sequence of functions from column name to cell.    *)
(* A cell is a record [k, v]: k is the kind of Python value, v an integer. *)
(* Numbers are kept in hundredths (v = 850 is 8.50, also the string        *)
(* "8.50", which float() parses to the same number).                       *)
(***************************************************************************)
EXTENDS Integers, Sequences, FiniteSets, TLC

VARIABLES
  pc,             \* position of the running handler / function
  sorts,          \* build: does pandas' outer merge sort the join keys?
  fbref_dfs,      \* dict table_id -> DataFrame returned by scrape_fbref_stats
  whoscored_data, \* dict tab -> [headers, rows], or None
  understat_df,   \* DataFrame or None
  merged_df,      \* the accumulator of merge_data_sources / its result
  idx,            \* loop position in fbref_dfs.items()
  final_df,       \* result of calculate_derived_metrics
  again_df,       \* result of calculate_derived_metrics on its own output
  raised,         \* the exception in flight, "" when none
  response,       \* HTTP response of POST /scrape: [code, inserted]
  players,        \* rows of the players table (committed)
  last_scrape,    \* meta['last_scrape'], 0 when the key is absent
  clock,          \* time of the request, counts the runs
  outcome         \* what each scraper met on this run

vars == <<pc, sorts, fbref_dfs, whoscored_data, understat_df, merged_df, idx,
          final_df, again_df, raised, response, players, last_scrape, clock,
          outcome>>

-----------------------------------------------------------------------------
(* Bounds *)

\* rows over all the inputs of one merge
MaxTotalRows == 3
\* identity keys (Player, Squad) the inputs draw from
MaxKeys == 2
\* rows of a table given to calculate_derived_metrics
MaxRows == 2
\* POST /scrape requests
MaxRuns == 2

-----------------------------------------------------------------------------
(* Cells *)

Num(n) == [k |-> "num", v |-> n]
\* float('nan'): what pandas puts in a cell an outer merge cannot fill
NaN == [k |-> "NaN", v |-> 0]
\* Python None: what pd.DataFrame(rows, columns=...) pads a short row with
None == [k |-> "None", v |-> 0]
\* a string float() cannot parse; i names the string (0 is the empty string)
Text(i) == [k |-> "text", v |-> i]
\* f"{x:.2f}%" and f"{x:.2f}" of a finite x, h its value in hundredths
Pct(h) == [k |-> "pct", v |-> h]
Fix2(h) == [k |-> "fix2", v |-> h]
\* f"{x:.2f}%" and f"{x:.2f}" of float('nan')
StrNanPct == [k |-> "nan%", v |-> 0]
StrNan == [k |-> "nan", v |-> 0]
StrNA == [k |-> "N/A", v |-> 0]

SeqToSet(s) == {s[i] : i \in DOMAIN s}

-----------------------------------------------------------------------------
(* DataFrames *)

NoneDF == [none |-> TRUE, cols |-> <<>>, rows |-> <<>>]
DF(cols, rows) == [none |-> FALSE, cols |-> cols, rows |-> rows]

IsKeyCol(c) == c \in {"Player", "Squad"}
KeyOf(r) == <<r["Player"], r["Squad"]>>
KeysOf(df) == [i \in DOMAIN df.rows |-> KeyOf(df.rows[i])]

\* df.rename(columns={'Team': 'Squad'})
RenameTeam(df) ==
  LET new(c) == IF c = "Team" THEN "Squad" ELSE c
  IN DF([i \in DOMAIN df.cols |-> new(df.cols[i])],
        [i \in DOMAIN df.rows |->
           [c \in {new(d) : d \in DOMAIN df.rows[i]} |->
              IF c = "Squad" /\ "Team" \in DOMAIN df.rows[i]
              THEN df.rows[i]["Team"] ELSE df.rows[i][c]]])

\* df.drop(columns=drop)
DropColumns(df, drop) ==
  DF(SelectSeq(df.cols, LAMBDA c : c \notin drop),
     [i \in DOMAIN df.rows |->
        [c \in (DOMAIN df.rows[i]) \ drop |-> df.rows[i][c]]])

\* the common columns are not looked for
CommonColsNone(acc, df) == {}

\* set(merged_df.columns) & set(df.columns), Player and Squad taken out
CommonCols(acc, df) ==
  {c \in SeqToSet(acc.cols) \cap SeqToSet(df.cols) : ~IsKeyCol(c)}

-----------------------------------------------------------------------------
(* pd.merge(left, right, on=['Player', 'Squad'], how='outer') *)

KeyLE(a, b) ==
  \/ a[1].v < b[1].v
  \/ a[1].v = b[1].v /\ a[2].v <= b[2].v

RECURSIVE Distinct(_)
\* the elements of s in order of first appearance
Distinct(s) ==
  IF s = <<>> THEN <<>>
  ELSE <<Head(s)>> \o Distinct(SelectSeq(Tail(s), LAMBDA x : x # Head(s)))

RECURSIVE SortKeys(_)
\* the keys of S in lexicographic order
SortKeys(S) ==
  IF S = {} THEN <<>>
  ELSE LET m == CHOOSE k \in S : \A o \in S : KeyLE(k, o)
       IN <<m>> \o SortKeys(S \ {m})

\* the right frame's keys come first
KeyOrderRightFirst(l, r, srt) == Distinct(KeysOf(r) \o KeysOf(l))

\* The order of the join keys in the result. pandas documents that an outer
\* merge sorts the keys lexicographically, and since 2.2 it does; older
\* versions factorize the keys with sort=False, which numbers them in order of
\* first appearance, the left frame's first.
KeyOrder(l, r, srt) ==
  IF srt THEN SortKeys(SeqToSet(KeysOf(l)) \cup SeqToSet(KeysOf(r)))
  ELSE Distinct(KeysOf(l) \o KeysOf(r))

\* columns both frames have get the suffixes _x and _y
Overlap(l, r) == {c \in SeqToSet(l.cols) \cap SeqToSet(r.cols) : ~IsKeyCol(c)}
LeftName(c, ov) == IF c \in ov THEN c \o "_x" ELSE c
RightName(c, ov) == IF c \in ov THEN c \o "_y" ELSE c

MergeCols(l, r) ==
  LET ov == Overlap(l, r)
      rc == SelectSeq(r.cols, LAMBDA c : ~IsKeyCol(c))
  IN [i \in DOMAIN l.cols |-> LeftName(l.cols[i], ov)]
     \o [i \in DOMAIN rc |-> RightName(rc[i], ov)]

\* one row of the result: lr and rr are the matching rows, hl and hr say
\* whether there is one
JoinRow(l, r, lr, hl, rr, hr) ==
  LET ov == Overlap(l, r)
      lc == {c \in SeqToSet(l.cols) : ~IsKeyCol(c)}
      rc == {c \in SeqToSet(r.cols) : ~IsKeyCol(c)}
  IN [c \in SeqToSet(MergeCols(l, r)) |->
        IF IsKeyCol(c) THEN (IF hl THEN lr[c] ELSE rr[c])
        ELSE IF \E d \in lc : LeftName(d, ov) = c
        THEN (IF hl THEN lr[CHOOSE d \in lc : LeftName(d, ov) = c] ELSE NaN)
        ELSE (IF hr THEN rr[CHOOSE d \in rc : RightName(d, ov) = c] ELSE NaN)]

\* the rows of one key: every pair of a left and a right row, left-major
GroupRows(l, r, key) ==
  LET L == SelectSeq(l.rows, LAMBDA x : KeyOf(x) = key)
      R == SelectSeq(r.rows, LAMBDA x : KeyOf(x) = key)
  IN IF R = <<>> THEN [i \in DOMAIN L |-> JoinRow(l, r, L[i], TRUE, <<>>, FALSE)]
     ELSE IF L = <<>>
     THEN [i \in DOMAIN R |-> JoinRow(l, r, <<>>, FALSE, R[i], TRUE)]
     ELSE [n \in 1..(Len(L) * Len(R)) |->
             JoinRow(l, r, L[((n - 1) \div Len(R)) + 1], TRUE,
                     R[((n - 1) % Len(R)) + 1], TRUE)]

RECURSIVE JoinGroups(_, _, _)
JoinGroups(l, r, keys) ==
  IF keys = <<>> THEN <<>>
  ELSE GroupRows(l, r, Head(keys)) \o JoinGroups(l, r, Tail(keys))

pdMergeOuter(l, r, srt) ==
  DF(MergeCols(l, r), JoinGroups(l, r, KeyOrder(l, r, srt)))

-----------------------------------------------------------------------------
(* merge_data_sources *)

\* the tables dict of scrape_fbref_stats, in insertion order
Categories ==
  <<"standard", "shooting", "passing", "gca", "defense", "possession", "misc">>

\* fbref_dfs.items(): the tables scraped, in insertion order
FbrefItems(dfs) == SelectSeq(Categories, LAMBDA t : t \in DOMAIN dfs)

\* the common columns are dropped from the accumulator: the later source wins
DropFromAccumulator(acc, df, srt) ==
  pdMergeOuter(DropColumns(acc, CommonCols(acc, df)), df, srt)

\* drop the columns the accumulator already has, then outer-merge
DropThenMerge(acc, df, srt) ==
  pdMergeOuter(acc, DropColumns(df, CommonCols(acc, df)), srt)

\* pd.DataFrame(rows, columns=headers): a short row is padded with None
DataFrameOf(headers, rows) ==
  DF(headers,
     [i \in DOMAIN rows |->
        [c \in SeqToSet(headers) |->
           LET j == CHOOSE n \in DOMAIN headers : headers[n] = c
           IN IF j <= Len(rows[i]) THEN rows[i][j] ELSE None]])

\* whoscored_data and 'Summary' in whoscored_data
HasSummary(ws) == ~ws.none /\ "Summary" \in DOMAIN ws.tabs

\* lines 220-240: the WhoScored Summary tab joins the accumulator
WhoscoredMerge(acc, ws, srt) ==
  IF ~HasSummary(ws) THEN acc
  ELSE LET wdf == DataFrameOf(ws.tabs["Summary"].headers, ws.tabs["Summary"].rows)
       IN IF "Player" \in SeqToSet(wdf.cols) /\ "Team" \in SeqToSet(wdf.cols)
          THEN DropThenMerge(acc, RenameTeam(wdf), srt)
          ELSE acc

\* lines 242-254: the Understat table joins the accumulator
UnderstatMerge(acc, us, srt) ==
  IF ~us.none /\ us.rows # <<>>
  THEN DropThenMerge(acc, RenameTeam(us), srt)
  ELSE acc

-----------------------------------------------------------------------------
(* Inputs: what the scrapers can hand to the merge *)

\* identity key number i: (P1, X), (P2, X), (P1, Y), (P2, Y), ...
PlayerOf(i) == Text(((i - 1) % 2) + 1)
SquadOf(i) == Text(((i - 1) \div 2) + 1)
KeyNo(i) == <<PlayerOf(i), SquadOf(i)>>

\* a row of source s: its cells carry the number 100 * s + i, so that the source
\* and the row a merged value came from can be read off it
TaggedRow(cols, s, i, key) ==
  [c \in SeqToSet(cols) |->
     IF c = "Player" THEN PlayerOf(key)
     ELSE IF c \in {"Squad", "Team"} THEN SquadOf(key)
     ELSE Num(100 * s + i)]
TaggedRows(cols, s, ks) == [i \in DOMAIN ks |-> TaggedRow(cols, s, i, ks[i])]

FbrefCols(t) ==
  CASE t = "standard" -> <<"Rk", "Player", "Squad", "Goals">>
    [] t = "shooting" -> <<"Rk", "Player", "Squad", "Goals", "Sh">>
    [] t = "passing" -> <<"Rk", "Player", "Squad", "Cmp", "Att">>
    [] t = "gca" -> <<"Rk", "Player", "Squad", "SCA", "GCA">>
    [] t = "defense" -> <<"Rk", "Player", "Squad", "Tkl", "Int">>
    [] t = "possession" -> <<"Rk", "Player", "Squad", "Dribbles Succ", "Dribbles Att">>
    [] OTHER -> <<"Rk", "Player", "Squad", "Aerial Duels Won", "Aerial Duels Lost">>

SummaryHeaders == <<"Player", "Team", "Goals", "Rating">>
\* the columns scrape_understat_stats builds for every row
UnderstatCols ==
  <<"Player", "Team", "Games", "Goals", "xG", "Assists", "xA", "Shots",
    "Key Passes", "Yellow Cards", "Red Cards">>

SrcNo(t) == CHOOSE n \in DOMAIN Categories : Categories[n] = t
SrcB == Len(Categories) + 1
SrcC == Len(Categories) + 2

\* whoscored_data: None, a dict without the Summary tab, a Summary tab without
\* the Team header, or a Summary tab
WhoscoredOf(variant, ks) ==
  CASE variant = "None" -> [none |-> TRUE, tabs |-> <<>>]
    [] variant = "no_summary" -> [none |-> FALSE, tabs |-> <<>>]
    [] variant = "no_team" ->
         [none |-> FALSE,
          tabs |-> [t \in {"Summary"} |->
                      [headers |-> <<"Player", "Goals", "Rating">>, rows |-> <<>>]]]
    [] OTHER ->
         [none |-> FALSE,
          tabs |-> [t \in {"Summary"} |->
                      [headers |-> SummaryHeaders,
                       rows |-> [i \in DOMAIN ks |->
                                   LET r == TaggedRow(SummaryHeaders, SrcB, i, ks[i])
                                   IN [j \in DOMAIN SummaryHeaders |->
                                         r[SummaryHeaders[j]]]]]]]

NoResponse == [code |-> 0, inserted |-> 0]
NoOutcome == [fbref |-> "", whoscored |-> "", understat |-> ""]

\* every way of handing at most MaxTotalRows rows, with keys among the first
\* MaxKeys, to the standard and shooting tables, the Summary tab and Understat
InitMerge ==
  /\ pc = "merge"
  /\ sorts \in BOOLEAN
  /\ \E n1 \in 0..MaxTotalRows : \E n2 \in 0..(MaxTotalRows - n1) :
     \E n3 \in 0..(MaxTotalRows - n1 - n2) :
     \E n4 \in 0..(MaxTotalRows - n1 - n2 - n3) :
     \E k1 \in [1..n1 -> 1..MaxKeys], k2 \in [1..n2 -> 1..MaxKeys],
        k3 \in [1..n3 -> 1..MaxKeys], k4 \in [1..n4 -> 1..MaxKeys] :
     \E present \in SUBSET {"standard", "shooting"} :
     \E wv \in {"None", "no_summary", "no_team", "ok"}, uv \in {"None", "df"} :
       /\ "standard" \notin present => n1 = 0
       /\ "shooting" \notin present => n2 = 0
       /\ wv # "ok" => n3 = 0
       /\ uv = "None" => n4 = 0
       /\ fbref_dfs =
            [t \in present |->
               DF(FbrefCols(t),
                  TaggedRows(FbrefCols(t), SrcNo(t),
                             IF t = "standard" THEN k1 ELSE k2))]
       /\ whoscored_data = WhoscoredOf(wv, k3)
       /\ understat_df =
            IF uv = "None" THEN NoneDF
            ELSE DF(IF n4 = 0 THEN <<>> ELSE UnderstatCols,
                    TaggedRows(UnderstatCols, SrcC, k4))
  /\ merged_df = NoneDF
  /\ idx = 0
  /\ final_df = NoneDF
  /\ again_df = NoneDF
  /\ raised = ""
  /\ response = NoResponse
  /\ players = <<>>
  /\ last_scrape = 0
  /\ clock = 0
  /\ outcome = NoOutcome

-----------------------------------------------------------------------------
(* merge_data_sources, step by step *)

\* lines 197-202: FBref's standard table is the base, and without it the merge
\* returns None
MergeStart ==
  /\ pc = "merge"
  /\ IF "standard" \notin DOMAIN fbref_dfs
     THEN /\ merged_df' = NoneDF
          /\ pc' = "merge_return"
          /\ idx' = idx
     ELSE /\ merged_df' = fbref_dfs["standard"]
          /\ pc' = "merge_fbref"
          /\ idx' = 1
  /\ UNCHANGED <<sorts, fbref_dfs, whoscored_data, understat_df, final_df,
                 again_df, raised, response, players, last_scrape, clock, outcome>>

\* lines 205-218: one turn of the loop over fbref_dfs.items()
MergeFbrefTable ==
  /\ pc = "merge_fbref"
  /\ LET items == FbrefItems(fbref_dfs)
         t == items[idx]
     IN /\ merged_df' = IF t = "standard" THEN merged_df
                        ELSE DropThenMerge(merged_df, fbref_dfs[t], sorts)
        /\ idx' = idx + 1
        /\ pc' = IF idx = Len(items) THEN "merge_whoscored" ELSE "merge_fbref"
  /\ UNCHANGED <<sorts, fbref_dfs, whoscored_data, understat_df, final_df,
                 again_df, raised, response, players, last_scrape, clock, outcome>>

\* lines 220-240
MergeWhoscored ==
  /\ pc = "merge_whoscored"
  /\ merged_df' = WhoscoredMerge(merged_df, whoscored_data, sorts)
  /\ pc' = "merge_understat"
  /\ UNCHANGED <<sorts, fbref_dfs, whoscored_data, understat_df, idx, final_df,
                 again_df, raised, response, players, last_scrape, clock, outcome>>

\* lines 242-256
MergeUnderstat ==
  /\ pc = "merge_understat"
  /\ merged_df' = UnderstatMerge(merged_df, understat_df, sorts)
  /\ pc' = "merge_return"
  /\ UNCHANGED <<sorts, fbref_dfs, whoscored_data, understat_df, idx, final_df,
                 again_df, raised, response, players, last_scrape, clock, outcome>>

NextMerge == MergeStart \/ MergeFbrefTable \/ MergeWhoscored \/ MergeUnderstat

SpecMerge == InitMerge /\ [][NextMerge]_vars

-----------------------------------------------------------------------------
(* The merge: what the claims speak of *)

Returned == pc = "merge_return" /\ ~merged_df.none

\* the Summary tab as the table the merge keys on, when it has one
SummaryUsable ==
  /\ HasSummary(whoscored_data)
  /\ {"Player", "Team"} \subseteq SeqToSet(whoscored_data.tabs["Summary"].headers)
SummaryTable ==
  RenameTeam(DataFrameOf(whoscored_data.tabs["Summary"].headers,
                         whoscored_data.tabs["Summary"].rows))
UnderstatUsable == ~understat_df.none /\ understat_df.rows # <<>>

\* the tables of the three sources in precedence order: Source A's tables
\* (standard first), the Summary tab of Source B, the table of Source C
Contributions ==
  LET items == FbrefItems(fbref_dfs)
  IN [i \in DOMAIN items |-> fbref_dfs[items[i]]]
     \o (IF SummaryUsable THEN <<SummaryTable>> ELSE <<>>)
     \o (IF UnderstatUsable THEN <<RenameTeam(understat_df)>> ELSE <<>>)

InputKeys == UNION {SeqToSet(KeysOf(Contributions[i])) : i \in DOMAIN Contributions}
InputCols == UNION {SeqToSet(Contributions[i].cols) : i \in DOMAIN Contributions}
RowsWithKey(df, key) == {i \in DOMAIN df.rows : KeyOf(df.rows[i]) = key}
HasKey(df, key) == RowsWithKey(df, key) # {}
HasCol(df, c) == c \in SeqToSet(df.cols)
ValuesAt(df, key, c) == {df.rows[i][c] : i \in RowsWithKey(df, key)}
NoDuplicates(q) == Cardinality(SeqToSet(q)) = Len(q)

\* C1 (as claimed): every Identity Key of the inputs is on exactly one row of
\* the returned merged table.
C1_UnionCompleteness ==
  Returned =>
    \A key \in InputKeys : Cardinality(RowsWithKey(merged_df, key)) = 1

\* C2 (as claimed): a key in an earlier and a later source, a non-key column in
\* both with different values: the merged rows of the key hold the earlier
\* source's value.
C2_EarlierSourceWins ==
  Returned =>
    \A s \in DOMAIN Contributions : \A t \in DOMAIN Contributions :
      \A key \in InputKeys : \A c \in InputCols :
        LET S == Contributions[s]
            T == Contributions[t]
        IN (/\ s < t
            /\ ~IsKeyCol(c) /\ HasCol(S, c) /\ HasCol(T, c)
            /\ HasKey(S, key) /\ HasKey(T, key)
            /\ ValuesAt(S, key, c) # ValuesAt(T, key, c))
           => \A i \in RowsWithKey(merged_df, key) :
                merged_df.rows[i][c] \in ValuesAt(S, key, c)

\* the first source, in merge order, that has column c
FirstWith(c) ==
  CHOOSE s \in DOMAIN Contributions :
    /\ HasCol(Contributions[s], c)
    /\ \A u \in 1..(s - 1) : ~HasCol(Contributions[u], c)

\* C2 (amended): every non-key cell of the merged table comes from the first
\* source, in merge order, that has the column: that source's value for the key,
\* null when it has no row for the key. Every later copy of the column is dropped.
C2_FirstSourceWithColumnWins ==
  Returned =>
    \A i \in DOMAIN merged_df.rows : \A c \in SeqToSet(merged_df.cols) :
      ~IsKeyCol(c) =>
        LET F == Contributions[FirstWith(c)]
            key == KeyOf(merged_df.rows[i])
        IN IF HasKey(F, key)
           THEN merged_df.rows[i][c] \in ValuesAt(F, key, c)
           ELSE merged_df.rows[i][c] = NaN

\* a key in two sources that both have a column, and the merged row holds the
\* earlier one's value, which is not the later one's
C2_Witness ==
  /\ Returned
  /\ \E s \in DOMAIN Contributions : \E t \in DOMAIN Contributions :
     \E key \in InputKeys : \E c \in InputCols :
       /\ s < t /\ ~IsKeyCol(c)
       /\ HasCol(Contributions[s], c) /\ HasCol(Contributions[t], c)
       /\ HasKey(Contributions[s], key) /\ HasKey(Contributions[t], key)
       /\ \E i \in RowsWithKey(merged_df, key) :
            /\ merged_df.rows[i][c] \in ValuesAt(Contributions[s], key, c)
            /\ merged_df.rows[i][c] \notin ValuesAt(Contributions[t], key, c)

\* C3: at every step of the merge the accumulator's column names are unique, and
\* each is a column name of an input: no suffixed copy (Goals_x, Goals_y) exists.
C3_NoDuplicateColumns ==
  ~merged_df.none =>
    /\ NoDuplicates(merged_df.cols)
    /\ SeqToSet(merged_df.cols) \subseteq InputCols

\* a merge of Source A's tables, of B and of C has happened, each bringing a
\* column the accumulator had
C3_Witness ==
  /\ Returned
  /\ "shooting" \in DOMAIN fbref_dfs /\ SummaryUsable /\ UnderstatUsable
  /\ merged_df.rows # <<>>
  /\ CommonCols(fbref_dfs["standard"], SummaryTable) # {}

\* C4 (as claimed): when some source has rows the merge returns a table, and
\* its keys are the union of the inputs' keys.
C4_AccumulatorSelection ==
  (pc = "merge_return" /\ InputKeys # {}) =>
    /\ ~merged_df.none
    /\ SeqToSet(KeysOf(merged_df)) = InputKeys

RECURSIVE SourceOrder(_, _)
\* the keys of the first table, then the keys each later table introduces
SourceOrder(tables, seen) ==
  IF tables = <<>> THEN seen
  ELSE SourceOrder(Tail(tables),
                   seen \o SelectSeq(KeysOf(Head(tables)),
                                     LAMBDA k : k \notin SeqToSet(seen)))

Grouped(q) ==
  \A i \in DOMAIN q : \A j \in DOMAIN q :
    (i < j /\ q[i] = q[j]) => \A m \in i..j : q[m] = q[i]

-----------------------------------------------------------------------------
(* calculate_derived_metrics *)

\* float(x): the exception it raises, "" when it returns
FloatError(c) ==
  CASE c.k = "None" -> "TypeError"
    [] c.k \in {"text", "pct", "nan%", "N/A"} -> "ValueError"
    [] OTHER -> ""
\* float(x) is nan
FloatIsNan(c) == c.k \in {"NaN", "nan"}
\* pd.notna(x)
NotNa(c) == c.k \notin {"NaN", "None"}

\* n / d to the nearest integer, ties to even: what .2f keeps of a quotient
RoundDiv(n, d) ==
  LET a == IF n < 0 THEN -n ELSE n
      q == a \div d
      r == a % d
      m == IF 2 * r < d THEN q
           ELSE IF 2 * r > d THEN q + 1
           ELSE IF q % 2 = 0 THEN q ELSE q + 1
  IN IF n < 0 THEN -m ELSE m

Cell(val) == [err |-> "", val |-> val]
Raise(e) == [err |-> e, val |-> NaN]

\* f"{(float(a) / float(b) * 100):.2f}%" if float(b) > 0 else "0.00%"
RateRow(a, b) ==
  IF FloatError(b) # "" THEN Raise(FloatError(b))
  ELSE IF FloatIsNan(b) \/ b.v <= 0 THEN Cell(Pct(0))
  ELSE IF FloatError(a) # "" THEN Raise(FloatError(a))
  ELSE IF FloatIsNan(a) THEN Cell(StrNanPct)
  ELSE Cell(Pct(RoundDiv(a.v * 10000, b.v)))

\* f"{(float(w) / (float(w) + float(l)) * 100):.2f}%"
\*   if (float(w) + float(l)) > 0 else "0.00%"
AerialRow(w, l) ==
  IF FloatError(w) # "" THEN Raise(FloatError(w))
  ELSE IF FloatError(l) # "" THEN Raise(FloatError(l))
  ELSE IF FloatIsNan(w) \/ FloatIsNan(l) \/ w.v + l.v <= 0 THEN Cell(Pct(0))
  ELSE Cell(Pct(RoundDiv(w.v * 10000, w.v + l.v)))

\* f"{float(a) - float(b):.2f}" if pd.notna(b) else "N/A"
DiffRow(a, b) ==
  IF ~NotNa(b) THEN Cell(StrNA)
  ELSE IF FloatError(a) # "" THEN Raise(FloatError(a))
  ELSE IF FloatError(b) # "" THEN Raise(FloatError(b))
  ELSE IF FloatIsNan(a) \/ FloatIsNan(b) THEN Cell(StrNan)
  ELSE Cell(Fix2(a.v - b.v))

\* df.apply(..., axis=1) goes down the rows and stops at the first exception
FirstError(res) ==
  IF \A i \in DOMAIN res : res[i].err = "" THEN ""
  ELSE res[CHOOSE i \in DOMAIN res :
             /\ res[i].err # ""
             /\ \A j \in 1..(i - 1) : res[j].err = ""].err

\* every assignment adds a column
SetColumnAppends(df, name, vals) ==
  DF(Append(df.cols, name),
     [i \in DOMAIN df.rows |->
        [c \in (DOMAIN df.rows[i]) \cup {name} |->
           IF c = name THEN vals[i] ELSE df.rows[i][c]]])

\* df[name] = vals: a new column goes last, a column the frame has is overwritten
SetColumn(df, name, vals) ==
  DF(IF name \in SeqToSet(df.cols) THEN df.cols ELSE Append(df.cols, name),
     [i \in DOMAIN df.rows |->
        [c \in (DOMAIN df.rows[i]) \cup {name} |->
           IF c = name THEN vals[i] ELSE df.rows[i][c]]])

Constant(df, val) == [i \in DOMAIN df.rows |-> val]

\* One try block of calculate_derived_metrics. st is [df, err]: the frame as it
\* stands and the exception that left the function, "" while it runs. res holds
\* what the lambda gives on each row, caught the exceptions of the except
\* clause, fallback the value the except clause gives the whole column.
MetricStep(st, a, b, out, res, caught, fallback) ==
  IF st.err # "" \/ ~(HasCol(st.df, a) /\ HasCol(st.df, b)) THEN st
  ELSE LET e == FirstError(res)
       IN IF e = ""
          THEN [df |-> SetColumn(st.df, out, [i \in DOMAIN res |-> res[i].val]),
                err |-> ""]
          ELSE IF e \in caught
          THEN [df |-> SetColumn(st.df, out, Constant(st.df, fallback)), err |-> ""]
          ELSE [df |-> st.df, err |-> e]

RateExcept == {"ValueError", "ZeroDivisionError"}
DiffExcept == {"ValueError", "TypeError"}

\* lines 262-282 and 306-315
RateMetric(st, a, b, out) ==
  MetricStep(st, a, b, out,
             [i \in DOMAIN st.df.rows |-> RateRow(st.df.rows[i][a], st.df.rows[i][b])],
             RateExcept, Pct(0))

\* lines 284-304
DiffMetric(st, a, b, out) ==
  MetricStep(st, a, b, out,
             [i \in DOMAIN st.df.rows |-> DiffRow(st.df.rows[i][a], st.df.rows[i][b])],
             DiffExcept, StrNA)

\* lines 317-326
AerialMetric(st, w, l, out) ==
  MetricStep(st, w, l, out,
             [i \in DOMAIN st.df.rows |-> AerialRow(st.df.rows[i][w], st.df.rows[i][l])],
             RateExcept, Pct(0))

\* lines 328-335, in the order of the assignments
Placeholders ==
  <<"Top_Speed", "Distance_Covered", "Big_Chances_Created", "Big_Chances_Missed",
    "Usage_Rate", "Ground_Duels_Won", "Passes_Leading_to_Shots">>

RECURSIVE AddPlaceholders(_, _)
AddPlaceholders(df, names) ==
  IF names = <<>> THEN df
  ELSE AddPlaceholders(SetColumn(df, Head(names), Constant(df, StrNA)), Tail(names))

\* the placeholders go only to a frame on which the conversion rate was computed
PlaceholderStepComputed(st) ==
  IF st.err # "" \/ ~HasCol(st.df, "Shooting_Conversion_Rate") THEN st
  ELSE [df |-> AddPlaceholders(st.df, Placeholders), err |-> ""]

PlaceholderStep(st) ==
  IF st.err # "" THEN st
  ELSE [df |-> AddPlaceholders(st.df, Placeholders), err |-> ""]

\* the function: [df, err], df the frame it returns, or the frame as the
\* exception err left it
calculate_derived_metrics(df) ==
  LET s0 == [df |-> df, err |-> ""]
      s1 == RateMetric(s0, "Goals", "Sh", "Shooting_Conversion_Rate")
      s2 == RateMetric(s1, "Cmp", "Att", "Pass_Completion_Rate")
      s3 == DiffMetric(s2, "Goals", "xG", "xG_Overperformance")
      s4 == DiffMetric(s3, "Assists", "xA", "xA_Overperformance")
      s5 == RateMetric(s4, "Dribbles Succ", "Dribbles Att", "Dribble_Completion_Rate")
      s6 == AerialMetric(s5, "Aerial Duels Won", "Aerial Duels Lost",
                         "Aerial_Duels_Win_Percentage")
  IN PlaceholderStep(s6)

\* scrape_all line 128: the merged table goes through the calculator
Derive ==
  /\ pc = "derive"
  /\ LET out == calculate_derived_metrics(merged_df)
     IN /\ final_df' = out.df
        /\ raised' = out.err
        /\ pc' = IF out.err = "" THEN "derived" ELSE "raised"
  /\ UNCHANGED <<sorts, fbref_dfs, whoscored_data, understat_df, merged_df, idx,
                 again_df, response, players, last_scrape, clock, outcome>>

\* the calculator called again, on the table it returned
DeriveAgain ==
  /\ pc = "derived"
  /\ LET out == calculate_derived_metrics(final_df)
     IN /\ again_df' = out.df
        /\ raised' = out.err
        /\ pc' = IF out.err = "" THEN "derived_again" ELSE "raised"
  /\ UNCHANGED <<sorts, fbref_dfs, whoscored_data, understat_df, merged_df, idx,
                 final_df, response, players, last_scrape, clock, outcome>>

\* the cells a scraped or merged table can hold in a metric's input columns: a
\* hole, a padded None, an unparsable string and numbers; 3 and 8.5 in the
\* first column of a pair, 0 and 8.5 in the second
NumeratorCells == {NaN, None, Text(0), Num(300), Num(850)}
DenominatorCells == {NaN, None, Text(0), Num(0), Num(850)}
MetricCells(schema, c) ==
  IF c = schema[1] THEN NumeratorCells ELSE DenominatorCells
RowCells(schema) ==
  {f \in [SeqToSet(schema) -> NumeratorCells \cup DenominatorCells] :
     \A c \in SeqToSet(schema) : f[c] \in MetricCells(schema, c)}

\* the input columns a table comes with: each metric's pair, one column of a
\* pair alone, none
MetricSchemas ==
  {<<"Goals", "Sh">>, <<"Cmp", "Att">>, <<"Goals", "xG">>, <<"Assists", "xA">>,
   <<"Dribbles Succ", "Dribbles Att">>,
   <<"Aerial Duels Won", "Aerial Duels Lost">>, <<"Goals">>, <<>>}

InitDerive ==
  /\ pc = "derive"
  /\ sorts = FALSE
  /\ \E schema \in MetricSchemas : \E n \in 0..MaxRows :
     \E cells \in [1..n -> RowCells(schema)] :
       merged_df =
         DF(<<"Player", "Squad">> \o schema,
            [i \in 1..n |->
               [c \in {"Player", "Squad"} \cup SeqToSet(schema) |->
                  IF c = "Player" THEN PlayerOf(i)
                  ELSE IF c = "Squad" THEN SquadOf(i)
                  ELSE cells[i][c]]])
  /\ fbref_dfs = <<>>
  /\ whoscored_data = WhoscoredOf("None", <<>>)
  /\ understat_df = NoneDF
  /\ idx = 0
  /\ final_df = NoneDF
  /\ again_df = NoneDF
  /\ raised = ""
  /\ response = NoResponse
  /\ players = <<>>
  /\ last_scrape = 0
  /\ clock = 0
  /\ outcome = NoOutcome

NextDerive == Derive \/ DeriveAgain

SpecDerive == InitDerive /\ [][NextDerive]_vars

-----------------------------------------------------------------------------
(* POST /scrape: trigger_scrape, scrape_all and the three scrapers *)

\* the cells of a scraped row: Goals 10, Sh 50, xG 8.50, 1 elsewhere
ScrapedRow(cols, key) ==
  [c \in SeqToSet(cols) |->
     IF c = "Player" THEN PlayerOf(key)
     ELSE IF c \in {"Squad", "Team"} THEN SquadOf(key)
     ELSE IF c = "Goals" THEN Num(1000)
     ELSE IF c = "Sh" THEN Num(5000)
     ELSE IF c = "xG" THEN Num(850)
     ELSE Num(100)]
\* the tables a page can give: no row, or one row of any key
ScrapedRowSets(cols) ==
  {<<>>} \cup {<<ScrapedRow(cols, key)>> : key \in 1..MaxKeys}

NoWhoscored == [none |-> TRUE, tabs |-> <<>>]
Locals ==
  /\ fbref_dfs = <<>>
  /\ whoscored_data = NoWhoscored
  /\ understat_df = NoneDF
  /\ merged_df = NoneDF
  /\ idx = 0
  /\ final_df = NoneDF
  /\ again_df = NoneDF
  /\ raised = ""
  /\ response = NoResponse
  /\ outcome = NoOutcome

Init ==
  /\ pc = "idle"
  /\ sorts \in BOOLEAN
  /\ Locals
  /\ players = <<>>
  /\ last_scrape = 0
  /\ clock = 0

\* a POST /scrape request arrives
TriggerScrape ==
  /\ pc = "idle"
  /\ clock < MaxRuns
  /\ clock' = clock + 1
  /\ pc' = "scrape_fbref"
  /\ UNCHANGED <<sorts, fbref_dfs, whoscored_data, understat_df, merged_df, idx,
                 final_df, again_df, raised, response, players, last_scrape,
                 outcome>>

\* scrape_fbref_stats: a table whose page fails or holds no table is left out of
\* the dict (the except and the continue of lines 58-60 and 80-82); the rows of
\* a table are those the Rk filter keeps. It never raises.
ScrapeFbref ==
  /\ pc = "scrape_fbref"
  /\ \E got \in SUBSET {"standard", "shooting"} :
     \E std \in ScrapedRowSets(FbrefCols("standard")) :
     \E sht \in ScrapedRowSets(FbrefCols("shooting")) :
       /\ "standard" \notin got => std = <<>>
       /\ "shooting" \notin got => sht = <<>>
       /\ fbref_dfs' = [t \in got |->
                          DF(FbrefCols(t), IF t = "standard" THEN std ELSE sht)]
       /\ outcome' = [outcome EXCEPT !.fbref =
                        IF "standard" \notin got THEN "no_standard"
                        ELSE IF std = <<>> /\ sht = <<>> THEN "no_rows" ELSE "ok"]
  /\ pc' = "scrape_whoscored"
  /\ UNCHANGED <<sorts, whoscored_data, understat_df, merged_df, idx, final_df,
                 again_df, raised, response, players, last_scrape, clock>>

\* scrape_whoscored_stats: driver.get is outside every try and its exception
\* leaves the function; a page that times out gives None; a tab whose table
\* times out is left out of the dict
ScrapeWhoscored ==
  /\ pc = "scrape_whoscored"
  /\ \/ /\ raised' = "WebDriverException"
        /\ pc' = "raised"
        /\ outcome' = [outcome EXCEPT !.whoscored = "driver_error"]
        /\ UNCHANGED whoscored_data
     \/ /\ \E v \in {"None", "no_summary"} :
             /\ whoscored_data' = WhoscoredOf(v, <<>>)
             /\ outcome' = [outcome EXCEPT !.whoscored =
                              IF v = "None" THEN "timeout" ELSE "no_summary"]
        /\ pc' = "scrape_understat"
        /\ UNCHANGED raised
     \/ /\ \E rows \in ScrapedRowSets(SummaryHeaders) :
             /\ whoscored_data' =
                  [none |-> FALSE,
                   tabs |-> [t \in {"Summary"} |->
                               [headers |-> SummaryHeaders,
                                rows |-> [i \in DOMAIN rows |->
                                            [j \in DOMAIN SummaryHeaders |->
                                               rows[i][SummaryHeaders[j]]]]]]]
             /\ outcome' = [outcome EXCEPT !.whoscored =
                              IF rows = <<>> THEN "no_rows" ELSE "ok"]
        /\ pc' = "scrape_understat"
        /\ UNCHANGED raised
  /\ UNCHANGED <<sorts, fbref_dfs, understat_df, merged_df, idx, final_df,
                 again_df, response, players, last_scrape, clock>>

\* scrape_understat_stats: requests.get is outside every try; a page without
\* the players table gives None; a row of two to ten cells passes the guard of
\* line 170 and cells[2] .. cells[10] raise IndexError
ScrapeUnderstat ==
  /\ pc = "scrape_understat"
  /\ \/ /\ \E e \in {"ConnectionError", "IndexError"} :
             /\ raised' = e
             /\ outcome' = [outcome EXCEPT !.understat =
                              IF e = "IndexError" THEN "short_row" ELSE "fetch_error"]
        /\ pc' = "raised"
        /\ UNCHANGED understat_df
     \/ /\ understat_df' = NoneDF
        /\ outcome' = [outcome EXCEPT !.understat = "no_table"]
        /\ pc' = "merge"
        /\ UNCHANGED raised
     \/ /\ \E rows \in ScrapedRowSets(UnderstatCols) :
             /\ understat_df' = DF(IF rows = <<>> THEN <<>> ELSE UnderstatCols, rows)
             /\ outcome' = [outcome EXCEPT !.understat =
                              IF rows = <<>> THEN "no_rows" ELSE "ok"]
        /\ pc' = "merge"
        /\ UNCHANGED raised
  /\ UNCHANGED <<sorts, fbref_dfs, whoscored_data, merged_df, idx, final_df,
                 again_df, response, players, last_scrape, clock>>

\* scrape_all lines 125-127: no merged table is a RuntimeError
MergedCheck ==
  /\ pc = "merge_return"
  /\ IF merged_df.none
     THEN raised' = "RuntimeError" /\ pc' = "raised"
     ELSE raised' = raised /\ pc' = "derive"
  /\ UNCHANGED <<sorts, fbref_dfs, whoscored_data, understat_df, merged_df, idx,
                 final_df, again_df, response, players, last_scrape, clock,
                 outcome>>

\* trigger_scrape lines 145-149: what scrape_all raises becomes a 500
ScrapeFailed ==
  /\ pc = "raised"
  /\ response' = [code |-> 500, inserted |-> 0]
  /\ pc' = "responded"
  /\ UNCHANGED <<sorts, fbref_dfs, whoscored_data, understat_df, merged_df, idx,
                 final_df, again_df, raised, players, last_scrape, clock, outcome>>

\* init_db lines 61-74: the players table has no PRIMARY KEY or UNIQUE
\* constraint over (name, squad)
UniqueNameSquad == FALSE

\* INSERT ... ON CONFLICT(name, squad) DO UPDATE, on a table with the constraint
Upsert(table, row) ==
  IF \E i \in DOMAIN table : table[i].name = row["Player"] /\ table[i].squad = row["Squad"]
  THEN [i \in DOMAIN table |->
          IF table[i].name = row["Player"] /\ table[i].squad = row["Squad"]
          THEN [table[i] EXCEPT !.data = row] ELSE table[i]]
  ELSE Append(table, [id |-> Len(table) + 1, name |-> row["Player"],
                      squad |-> row["Squad"], data |-> row])

RECURSIVE UpsertAll(_, _)
UpsertAll(table, rows) ==
  IF rows = <<>> THEN table
  ELSE UpsertAll(Upsert(table, Head(rows)), Tail(rows))

\* trigger_scrape lines 151-187. SQLite refuses an ON CONFLICT target that
\* matches no PRIMARY KEY or UNIQUE constraint when it prepares the statement,
\* so the first execute of the loop raises OperationalError; the handler has no
\* try around it, nothing is committed, and the request ends in a 500. With no
\* player the loop is not entered: last_scrape is written and committed.
Persist ==
  /\ pc = "derived"
  /\ IF final_df.rows # <<>> /\ ~UniqueNameSquad
     THEN /\ raised' = "OperationalError"
          /\ response' = [code |-> 500, inserted |-> 0]
          /\ UNCHANGED <<players, last_scrape>>
     ELSE /\ players' = UpsertAll(players, final_df.rows)
          /\ last_scrape' = clock
          /\ response' = [code |-> 200, inserted |-> Len(final_df.rows)]
          /\ UNCHANGED raised
  /\ pc' = "responded"
  /\ UNCHANGED <<sorts, fbref_dfs, whoscored_data, understat_df, merged_df, idx,
                 final_df, again_df, clock, outcome>>

\* the request is over: the handler's locals are gone, the database stays
Teardown ==
  /\ pc = "responded"
  /\ pc' = "idle"
  /\ fbref_dfs' = <<>>
  /\ whoscored_data' = NoWhoscored
  /\ understat_df' = NoneDF
  /\ merged_df' = NoneDF
  /\ idx' = 0
  /\ final_df' = NoneDF
  /\ again_df' = NoneDF
  /\ raised' = ""
  /\ response' = NoResponse
  /\ outcome' = NoOutcome
  /\ UNCHANGED <<sorts, players, last_scrape, clock>>

Next ==
  \/ TriggerScrape
  \/ ScrapeFbref
  \/ ScrapeWhoscored
  \/ ScrapeUnderstat
  \/ MergeStart
  \/ MergeFbrefTable
  \/ MergeWhoscored
  \/ MergeUnderstat
  \/ MergedCheck
  \/ Derive
  \/ ScrapeFailed
  \/ Persist
  \/ Teardown

Spec == Init /\ [][Next]_vars

-----------------------------------------------------------------------------
(* The calculator: what the claims speak of *)

IsNumber(c) == c.k = "num"
Computed == pc \in {"derived", "raised"} /\ again_df.none

\* the rate metrics with two input columns, [a, b, out]
RateMetrics ==
  {<<"Goals", "Sh", "Shooting_Conversion_Rate">>,
   <<"Cmp", "Att", "Pass_Completion_Rate">>,
   <<"Dribbles Succ", "Dribbles Att", "Dribble_Completion_Rate">>}
DiffMetrics ==
  {<<"Goals", "xG", "xG_Overperformance">>,
   <<"Assists", "xA", "xA_Overperformance">>}

\* the rate the specification asks for: a / b * 100 to two decimals when both
\* are numbers and b > 0, "0.00%" otherwise
RateWanted(a, b) ==
  IF IsNumber(a) /\ IsNumber(b) /\ b.v > 0
  THEN Pct(RoundDiv(a.v * 10000, b.v)) ELSE Pct(0)
AerialWanted(w, l) ==
  IF IsNumber(w) /\ IsNumber(l) /\ w.v + l.v > 0
  THEN Pct(RoundDiv(w.v * 10000, w.v + l.v)) ELSE Pct(0)
\* the differential the specification asks for
DiffWanted(a, b) ==
  IF IsNumber(a) /\ IsNumber(b) THEN Fix2(a.v - b.v) ELSE StrNA

\* C6 (as claimed): the calculator never raises, and on every row every rate
\* metric whose input columns exist is the two-decimal percentage of a / b * 100
\* when a and b are numbers and b > 0, and "0.00%" otherwise.
C6_RateTotality ==
  Computed =>
    /\ raised = ""
    /\ \A m \in RateMetrics :
         (HasCol(merged_df, m[1]) /\ HasCol(merged_df, m[2])) =>
           \A i \in DOMAIN merged_df.rows :
             final_df.rows[i][m[3]] =
               RateWanted(merged_df.rows[i][m[1]], merged_df.rows[i][m[2]])
    /\ (HasCol(merged_df, "Aerial Duels Won") /\ HasCol(merged_df, "Aerial Duels Lost")) =>
         \A i \in DOMAIN merged_df.rows :
           final_df.rows[i]["Aerial_Duels_Win_Percentage"] =
             AerialWanted(merged_df.rows[i]["Aerial Duels Won"],
                          merged_df.rows[i]["Aerial Duels Lost"])

\* C7 (as claimed): on every row each differential metric is "N/A" when either
\* input is missing or not a number, and the two-decimal string of a - b
\* otherwise; the computation never raises.
C7_DifferentialTotality ==
  Computed =>
    \A m \in DiffMetrics :
      (HasCol(merged_df, m[1]) /\ HasCol(merged_df, m[2])) =>
        /\ raised = ""
        /\ \A i \in DOMAIN merged_df.rows :
             final_df.rows[i][m[3]] =
               DiffWanted(merged_df.rows[i][m[1]], merged_df.rows[i][m[2]])

DerivedColumns ==
  {"Shooting_Conversion_Rate", "Pass_Completion_Rate", "xG_Overperformance",
   "xA_Overperformance", "Dribble_Completion_Rate", "Aerial_Duels_Win_Percentage"}
  \cup SeqToSet(Placeholders)

\* C10: the calculator called on its own output returns, without raising, a
\* table with the same columns and, on every row, the same value in every
\* derived and placeholder column.
C10_DeriveIdempotent ==
  /\ (pc = "raised" => again_df.none)
  /\ pc = "derived_again" =>
       /\ again_df.cols = final_df.cols
       /\ Len(again_df.rows) = Len(final_df.rows)
       /\ \A i \in DOMAIN final_df.rows :
            \A c \in DerivedColumns \cap SeqToSet(final_df.cols) :
              again_df.rows[i][c] = final_df.rows[i][c]

\* the second call has run on a table with a computed rate or differential
C10_Witness ==
  /\ pc = "derived_again"
  /\ \E i \in DOMAIN again_df.rows : \E c \in DerivedColumns \cap SeqToSet(again_df.cols) :
       /\ again_df.rows[i][c].k \in {"pct", "fix2"}
       /\ again_df.rows[i][c].v # 0

\* the columns of physical and tracking metrics no source delivers
PlaceholderColumns ==
  {"Top_Speed", "Distance_Covered", "Big_Chances_Created", "Big_Chances_Missed",
   "Usage_Rate", "Ground_Duels_Won", "Passes_Leading_to_Shots"}

\* a frame has each placeholder column once and "N/A" in it on every row
StableSchema(df) ==
  /\ ~df.none
  /\ \A c \in PlaceholderColumns :
       /\ Cardinality({j \in DOMAIN df.cols : df.cols[j] = c}) = 1
       /\ \A i \in DOMAIN df.rows : df.rows[i][c] = StrNA

\* C11: the table calculate_derived_metrics returns has every placeholder
\* column (Top_Speed, Distance_Covered, Big_Chances_Created,
\* Big_Chances_Missed, Usage_Rate, Ground_Duels_Won, Passes_Leading_to_Shots),
\* with "N/A" on every row, whichever derived metrics were computed, replaced
\* by their fallback or skipped; a second call keeps it so.
C11_PlaceholderSchema ==
  /\ pc \in {"derived", "derived_again"} => StableSchema(final_df)
  /\ pc = "derived_again" => StableSchema(again_df)

\* the calculator has returned a table with rows on which it skipped every
\* derived metric
C11_Witness ==
  /\ pc = "derived"
  /\ final_df.rows # <<>>
  /\ HasCol(merged_df, "Goals")
  /\ \A c \in DerivedColumns \ PlaceholderColumns : ~HasCol(final_df, c)
  /\ \A c \in PlaceholderColumns : HasCol(final_df, c)

\* a row's inputs let the metric be computed
RateValid(a, b) == IsNumber(a) /\ IsNumber(b) /\ b.v > 0
DiffValid(a, b) == IsNumber(a) /\ IsNumber(b)

\* C12 (as claimed): a row whose own inputs are valid (numbers, with a
\* denominator above zero for a rate) receives its computed value, whatever
\* the other rows of the table hold: a missing or non-numeric cell on another
\* row neither raises nor changes this row's value.
C12_PerRowIsolation ==
  Computed =>
    /\ \A m \in RateMetrics :
         (HasCol(merged_df, m[1]) /\ HasCol(merged_df, m[2])) =>
           \A i \in DOMAIN merged_df.rows :
             RateValid(merged_df.rows[i][m[1]], merged_df.rows[i][m[2]]) =>
               /\ raised = ""
               /\ final_df.rows[i][m[3]] =
                    Pct(RoundDiv(merged_df.rows[i][m[1]].v * 10000,
                                 merged_df.rows[i][m[2]].v))
    /\ \A m \in DiffMetrics :
         (HasCol(merged_df, m[1]) /\ HasCol(merged_df, m[2])) =>
           \A i \in DOMAIN merged_df.rows :
             DiffValid(merged_df.rows[i][m[1]], merged_df.rows[i][m[2]]) =>
               /\ raised = ""
               /\ final_df.rows[i][m[3]] =
                    Fix2(merged_df.rows[i][m[1]].v - merged_df.rows[i][m[2]].v)

-----------------------------------------------------------------------------
(* The run: what the claims speak of *)

\* no source has a row
NoDataRun ==
  /\ \A t \in DOMAIN fbref_dfs : fbref_dfs[t].rows = <<>>
  /\ ~HasSummary(whoscored_data) \/ whoscored_data.tabs["Summary"].rows = <<>>
  /\ understat_df.none \/ understat_df.rows = <<>>

\* C8 (as claimed): a run on which no source yields data ends in a failure, and
\* last_scrape is not written by it.
C8_NoDataRunFails ==
  (pc = "responded" /\ NoDataRun) =>
    /\ response.code = 500
    /\ last_scrape # clock

\* the sources that gave the run nothing to merge
UnavailableSources ==
  {s \in {"fbref", "whoscored", "understat"} : outcome[s] \notin {"", "ok"}}
\* the exceptions of the scrapers and of the merge check
SourceFailures == {"WebDriverException", "ConnectionError", "IndexError", "RuntimeError"}

\* C9 (as claimed): a run on which one source is unavailable and the other two
\* deliver is not ended by an exception of a scraper or by the missing merge.
C9_SingleSourceNeverAborts ==
  (/\ pc = "responded"
   /\ Cardinality(UnavailableSources) = 1
   /\ \A s \in {"fbref", "whoscored", "understat"} : outcome[s] # "")
  => raised \notin SourceFailures

\* scrape_all returned a table to trigger_scrape
ScrapeReturned == ~final_df.none /\ raised \in {"", "OperationalError"}
\* the rows the players table holds for a (name, squad) pair
StoredFor(name, squad) ==
  {i \in DOMAIN players : players[i].name = name /\ players[i].squad = squad}

\* C13 (as claimed): the players table never holds two rows for one
\* (name, squad) pair; a run whose scrape returned players ends with each of
\* them stored on exactly one row that holds the run's data, and answers 200;
\* last_scrape is written only by a run that answers 200.
C13_UpsertUniqueness ==
  /\ \A i, j \in DOMAIN players :
       (players[i].name = players[j].name /\ players[i].squad = players[j].squad)
         => i = j
  /\ (pc = "responded" /\ ScrapeReturned) =>
       /\ response.code = 200
       /\ \A r \in DOMAIN final_df.rows :
            /\ Cardinality(StoredFor(final_df.rows[r]["Player"],
                                     final_df.rows[r]["Squad"])) = 1
            /\ \E i \in StoredFor(final_df.rows[r]["Player"],
                                   final_df.rows[r]["Squad"]) :
                 \E q \in DOMAIN final_df.rows : players[i].data = final_df.rows[q]
  /\ (pc = "responded" /\ last_scrape = clock) => response.code = 200

====
